---- MODULE Spec2Model ----
(***************************************************************************)
(* agvault: project files are reconciled with a remote git repository (the *)
(* vault) through ephemeral temp-directory clones.  The model covers the   *)
(* configuration store (config.ts), the file collector, the ephemeral      *)
(* session withTempVault and the operations built on it (vault.ts), and    *)
(* the remote bootstrap through the hosting CLI (gh.ts).                   *)
(*                                                                         *)
(* Strings that the code takes apart (paths, glob patterns, URLs, error    *)
(* messages) are sequences of tokens: a path is the sequence of its        *)
(* segments, a message the sequence of its words.                          *)
(***************************************************************************)
EXTENDS Integers, Sequences, FiniteSets, TLC

VARIABLES config, local, remote, net, gh, proc, tmp, stale, hist, budget, global

vars == <<config, local, remote, net, gh, proc, tmp, stale, hist, budget, global>>

(***************************************************************************)
(* Bounds of the model.                                                    *)
(***************************************************************************)
\* operations started in one behaviour
MaxOps == 2
\* environment events (file edits, config edits, network changes) in one behaviour
MaxEnv == 2

(***************************************************************************)
(* Generic helpers on sequences and functions.                             *)
(***************************************************************************)
Range(s) == {s[i] : i \in DOMAIN s}

Last(s) == s[Len(s)]

Front(s) == SubSeq(s, 1, Len(s) - 1)

\* String.prototype.includes on token sequences: t occurs contiguously in s
Includes(s, t) ==
  \E i \in 0..(Len(s) - Len(t)) : SubSeq(s, i + 1, i + Len(t)) = t

IsPrefix(p, s) == Len(p) <= Len(s) /\ SubSeq(s, 1, Len(p)) = p

EmptyTree == [p \in {} |-> 0]

Restrict(f, S) == [x \in S |-> f[x]]

\* g overrides f where both are defined
Overlay(f, g) == [x \in (DOMAIN f) \cup (DOMAIN g) |-> IF x \in DOMAIN g THEN g[x] ELSE f[x]]

(***************************************************************************)
(* The project roots of the model and the files they may hold.             *)
(***************************************************************************)
RootA == <<"a", "proj">>
RootB == <<"b", "proj">>
RootC == <<"a", "other">>
Roots == {RootA, RootB, RootC}

\* every project-relative path of the model, in lexicographic order
Universe ==
  << <<"README.md">>, <<"a.md">>, <<"b", "a.md">>, <<"b", "c.md">>, <<"b", "c.txt">>,
     <<"node_modules", "pkg", "readme.md">> >>
RelPaths == Range(Universe)

PathIndex(p) == CHOOSE i \in DOMAIN Universe : Universe[i] = p

\* the extension of a file name ("" when it has none)
ExtOf(name) ==
  CASE name \in {"a.md", "c.md", "README.md", "readme.md"} -> "md"
    [] name \in {"rules.mdc"} -> "mdc"
    [] name \in {"c.txt"} -> "txt"
    [] OTHER -> ""

(***************************************************************************)
(* config.ts                                                               *)
(***************************************************************************)
DEFAULT_INCLUDE ==
  << <<"**", "*.md">>, <<"**", "*.mdc">>, <<".cursor", "**">>, <<".cursorrules">>,
     <<"docs", "**">>, <<"*.md">> >>

DEFAULT_EXCLUDE ==
  << <<"node_modules", "**">>, <<".git", "**">>, <<"dist", "**">>, <<"build", "**">>,
     <<".agvault", "**">> >>

\* JSON string values: a string is [t |-> "str", v |-> tokens]; a value of
\* another JSON type (a number, say) is [t |-> "num", v |-> tokens]
Str(v) == [t |-> "str", v |-> v]
NonStr(v) == [t |-> "num", v |-> v]
EmptyStr == Str(<<>>)

\* JavaScript truthiness of such a value: "" is falsy, a non-zero number truthy
Truthy(x) == x.v # <<>>

\* The config file on disk: missing, unparseable, or a JSON object whose
\* fields named in `has` are present.
NoFile == [kind |-> "missing", has |-> {}, repoUrl |-> EmptyStr,
           include |-> <<>>, exclude |-> <<>>, branch |-> "main"]
BadFile == [kind |-> "invalid", has |-> {}, repoUrl |-> EmptyStr,
            include |-> <<>>, exclude |-> <<>>, branch |-> "main"]
JsonFile(has, url, inc, exc) ==
  [kind |-> "json", has |-> has, repoUrl |-> url, include |-> inc, exclude |-> exc,
   branch |-> "main"]

\* loadConfig's three outcomes: null, a thrown error, a config with defaults filled
CfgNull == [tag |-> "null", repoUrl |-> EmptyStr, include |-> <<>>, exclude |-> <<>>,
            branch |-> "main"]
CfgThrow == [tag |-> "throw", repoUrl |-> EmptyStr, include |-> <<>>, exclude |-> <<>>,
             branch |-> "main"]

loadConfig(file) ==
  IF file.kind = "missing" THEN CfgNull
  ELSE IF file.kind = "invalid" THEN CfgThrow
  ELSE [tag |-> "ok",
        repoUrl |-> IF "repoUrl" \in file.has THEN file.repoUrl ELSE EmptyStr,
        include |-> IF "include" \in file.has THEN file.include ELSE DEFAULT_INCLUDE,
        exclude |-> IF "exclude" \in file.has THEN file.exclude ELSE DEFAULT_EXCLUDE,
        branch |-> IF "branch" \in file.has THEN file.branch ELSE "main"]

\* the older copy of loadConfig kept in global-default.ts: a parse error gives null
loadConfigLegacy(file) ==
  IF file.kind = "missing" THEN CfgNull
  ELSE IF file.kind = "invalid" THEN CfgNull
  ELSE loadConfig(file)

\* isInitialized: "throw" when loadConfig throws, else TRUE/FALSE as a string tag
isInitialized(file) ==
  LET c == loadConfig(file)
  IN IF c.tag = "throw" THEN "throw"
     ELSE IF c.tag # "null" /\ Truthy(c.repoUrl) THEN "true" ELSE "false"

isInitializedLegacy(file) ==
  LET c == loadConfigLegacy(file)
  IN IF c.tag # "null" /\ Truthy(c.repoUrl) THEN "true" ELSE "false"

\* `!config?.repoUrl`
NoRepoUrl(c) == c.tag = "null" \/ ~Truthy(c.repoUrl)

saveConfig(c) ==
  [kind |-> "json", has |-> {"repoUrl", "include", "exclude", "branch"},
   repoUrl |-> c.repoUrl, include |-> c.include, exclude |-> c.exclude, branch |-> c.branch]

InvalidJsonMsg == <<"Invalid JSON in .agvault/config.json", ": ", "Unexpected token">>
NotInitMsg == <<"Not initialized.", " Run 'agvault init' first.">>
TypeErrorMsg == <<"repoUrl.trim is not a function">>

(***************************************************************************)
(* The file collector (vault.ts collectFiles) over glob's matching.        *)
(***************************************************************************)
\* one pattern segment against one path segment
SegMatch(ps, name) ==
  CASE ps = "*" -> TRUE
    [] ps = "*.md" -> ExtOf(name) = "md"
    [] ps = "*.mdc" -> ExtOf(name) = "mdc"
    [] OTHER -> ps = name

RECURSIVE GlobMatch(_, _)
GlobMatch(pat, path) ==
  IF pat = <<>> THEN path = <<>>
  ELSE IF Head(pat) = "**"
    THEN GlobMatch(Tail(pat), path) \/ (path # <<>> /\ GlobMatch(pat, Tail(path)))
    ELSE path # <<>> /\ SegMatch(Head(pat), Head(path)) /\ GlobMatch(Tail(pat), Tail(path))

\* a glob that ignores its ignore option
IgnoredNever(exclude, path) == FALSE

\* glob's ignore option
Ignored(exclude, path) == \E i \in DOMAIN exclude : GlobMatch(exclude[i], path)

\* glob(pattern, {cwd, nodir, ignore, dot}): the regular files of the tree that
\* match, as a sequence in path order
RECURSIVE GlobFrom(_, _, _, _)
GlobFrom(i, pattern, exclude, tree) ==
  IF i > Len(Universe) THEN <<>>
  ELSE LET p == Universe[i]
           rest == GlobFrom(i + 1, pattern, exclude, tree)
       IN IF p \in DOMAIN tree /\ GlobMatch(pattern, p) /\ ~Ignored(exclude, p)
          THEN <<p>> \o rest ELSE rest

glob(pattern, exclude, tree) == GlobFrom(1, pattern, exclude, tree)

\* a collector without its `seen` set
AddAll(results, fs) == results \o fs

\* append the entries of fs not yet seen
RECURSIVE AddUnseen(_, _)
AddUnseen(results, fs) ==
  IF fs = <<>> THEN results
  ELSE AddUnseen(IF Head(fs) \in Range(results) THEN results ELSE Append(results, Head(fs)),
                 Tail(fs))

RECURSIVE CollectFrom(_, _, _, _)
CollectFrom(i, c, tree, results) ==
  IF i > Len(c.include) THEN results
  ELSE CollectFrom(i + 1, c, tree, AddUnseen(results, glob(c.include[i], c.exclude, tree)))

\* collectFiles for a loaded config (the caller handles the thrown case)
collectFiles(c, tree) ==
  IF c.tag = "null" THEN <<>> ELSE CollectFrom(1, c, tree, <<>>)

(***************************************************************************)
(* The workspace mapper and the tree walks of vault.ts.  A working tree is *)
(* [files |-> path -> content, dirs |-> set of directory paths]; paths are *)
(* relative to the temp directory.                                         *)
(***************************************************************************)
\* path.basename: the last segment, "" for the filesystem root
basename(cwd) == IF cwd = <<>> THEN "" ELSE Last(cwd)

\* vault.ts getWorkspaceName with the mutant used by the isolation claims
getWorkspaceNameShared(cwd) == "default"

getWorkspaceName(cwd) == IF basename(cwd) = "" THEN "default" ELSE basename(cwd)

VaultDir == <<"vault">>
GitKeep == <<"vault", ".gitkeep">>

WorkspaceRoot(cwd) == <<"vault", getWorkspaceName(cwd)>>

\* the proper, non-empty prefixes of a path: the directories mkdir -p creates
DirsOf(path) == {SubSeq(path, 1, n) : n \in 1..(Len(path) - 1)}

Under(dir, path) == Len(path) > Len(dir) /\ IsPrefix(dir, path)

\* the path below dir
Below(dir, path) == SubSeq(path, Len(dir) + 1, Len(path))

EmptyFs == [files |-> EmptyTree, dirs |-> {}]

\* a checkout of a committed tree: git tracks files only
Checkout(tree) == [files |-> tree, dirs |-> UNION {DirsOf(p) : p \in DOMAIN tree}]

\* copyToVault without the workspace prefix: every project writes to vault/
copyToVaultFlat(files, fs, cwd, tree) ==
  LET dests == {VaultDir \o files[i] : i \in DOMAIN files}
  IN [files |-> Overlay(fs.files, [d \in dests |-> tree[Below(VaultDir, d)]]),
      dirs |-> fs.dirs \cup UNION {DirsOf(d) : d \in dests}]

\* copyToVault: cpSync of every collected file to vault/<workspace>/<relativePath>
copyToVault(files, fs, cwd, tree) ==
  LET root == WorkspaceRoot(cwd)
      dests == {root \o files[i] : i \in DOMAIN files}
  IN [files |-> Overlay(fs.files, [d \in dests |-> tree[Below(root, d)]]),
      dirs |-> fs.dirs \cup UNION {DirsOf(d) : d \in dests}]

Children(fs, dir) == {d \in fs.dirs : Len(d) = Len(dir) + 1 /\ IsPrefix(dir, d)}

Entries(fs, dir) ==
  Children(fs, dir) \cup {f \in DOMAIN fs.files : Len(f) = Len(dir) + 1 /\ IsPrefix(dir, f)}

RECURSIVE removeEmptyDirs(_, _), RemoveEmptyIn(_, _)
RemoveEmptyIn(fs, ds) ==
  IF ds = {} THEN fs
  ELSE LET d == CHOOSE x \in ds : TRUE
       IN RemoveEmptyIn(removeEmptyDirs(fs, d), ds \ {d})

removeEmptyDirs(fs, dir) ==
  IF dir \notin fs.dirs THEN fs
  ELSE LET fs1 == RemoveEmptyIn(fs, Children(fs, dir))
       IN IF Entries(fs1, dir) = {} THEN [fs1 EXCEPT !.dirs = @ \ {dir}] ELSE fs1

\* removeExcludedFromVault that forgets to delete
removeExcludedKeep(fs, cwd, allowed) == fs

\* removeExcludedFromVault: delete the workspace files outside `allowed`, then
\* the directories left empty
removeExcludedFromVault(fs, cwd, allowed) ==
  LET root == WorkspaceRoot(cwd)
      toDelete == {f \in DOMAIN fs.files : Under(root, f) /\ Below(root, f) \notin allowed}
  IN IF root \notin fs.dirs THEN fs
     ELSE removeEmptyDirs([fs EXCEPT !.files = Restrict(@, DOMAIN @ \ toDelete)], root)

IsSuffix(p, s) == Len(p) <= Len(s) /\ SubSeq(s, Len(s) - Len(p) + 1, Len(s)) = p

\* a filter that knows the exact relative path only
PullMatchExact(cwd, rel, paths) == paths = {} \/ rel \in paths

\* the filter of copyFromVault: `paths` is a set of token sequences, {} for none
PullMatch(cwd, rel, paths) ==
  paths = {} \/
  \E p \in paths :
     \/ <<getWorkspaceName(cwd)>> \o rel = p
     \/ rel = p
     \/ (p # <<>> /\ Len(p) < Len(rel) /\ IsSuffix(p, rel))
     \/ p = <<Last(rel)>>

\* a walk of copyFromVault that starts at vault/ instead of the workspace
PullSourcesAll(fs, cwd, paths) ==
  {f \in DOMAIN fs.files : Under(VaultDir, f) /\ Len(f) > 2}

\* the vault files the walk of copyFromVault reads: those under the workspace
\* root that pass the filter
PullSources(fs, cwd, paths) ==
  LET root == WorkspaceRoot(cwd)
  IN IF root \notin fs.dirs THEN {}
     ELSE {f \in DOMAIN fs.files : Under(root, f) /\ PullMatch(cwd, Below(root, f), paths)}

\* a copy-out that stops at the first file that passes the filter
CopyOutFirst(fs, cwd, paths) ==
  LET src == PullSources(fs, cwd, paths)
      rel(f) == Below(WorkspaceRoot(cwd), f)
      first == CHOOSE f \in src : \A g \in src : PathIndex(rel(f)) <= PathIndex(rel(g))
  IN IF src = {} THEN EmptyTree ELSE [r \in {rel(first)} |-> fs.files[first]]

\* what copyFromVault writes: project-relative path -> content
CopyOut(fs, cwd, paths) ==
  LET src == PullSources(fs, cwd, paths)
      rel(f) == Below(WorkspaceRoot(cwd), f)
  IN [r \in {rel(f) : f \in src} |-> fs.files[CHOOSE f \in src : rel(f) = r]]

\* copyFromVault: the project tree afterwards and the count returned
copyFromVault(fs, cwd, paths, tree) ==
  LET out == CopyOut(fs, cwd, paths)
  IN [tree |-> Overlay(tree, out), count |-> Cardinality(DOMAIN out)]

\* every vault-relative path of the model in the order of Array.prototype.sort
\* ("." sorts before "/", which sorts before the letters)
SortOrder ==
  << <<".gitkeep">> >> \o
  [i \in 1..Len(Universe) |-> <<"other">> \o Universe[i]] \o
  [i \in 1..Len(Universe) |-> <<"proj">> \o Universe[i]]

RECURSIVE SortedFrom(_, _)
SortedFrom(i, S) ==
  IF i > Len(SortOrder) THEN <<>>
  ELSE IF SortOrder[i] \in S THEN <<SortOrder[i]>> \o SortedFrom(i + 1, S)
       ELSE SortedFrom(i + 1, S)

\* listVaultFiles: every file under vault/, relative to it, sorted
listVaultFiles(fs) ==
  IF VaultDir \notin fs.dirs THEN <<>>
  ELSE SortedFrom(1, {Below(VaultDir, f) : f \in {g \in DOMAIN fs.files : Under(VaultDir, g)}})

\* listVaultFilesForProjectRemote's callback, which vault.ts does not define:
\* taken from the specification's List, the paths under the workspace
\* partition, relative to it, sorted
listVaultFilesForProject(fs, cwd) ==
  LET root == WorkspaceRoot(cwd)
      all == listVaultFiles(fs)
      mine == {i \in DOMAIN all : Under(root, VaultDir \o all[i])}
      Keep(i) == Cardinality({k \in mine : k <= i})
  IN [n \in 1..Cardinality(mine) |->
        Below(root, VaultDir \o all[CHOOSE i \in mine : Keep(i) = n])]

(***************************************************************************)
(* gh.ts and the git client.                                               *)
(***************************************************************************)
\* the two repository URLs of the model; both name the one remote of the model
GitHubUrl == Str(<<"https://github.com/", "you", "/", "my-agvault", ".git">>)
PlainUrl == Str(<<"ssh://git.example.org/", "srv", "/", "vault.git">>)
NumberUrl == NonStr(<<"123">>)

NoRepo == <<>>

\* parseGitHubRepoUrl: <<owner, "/", repo>> for a github.com URL, else null
\* (NoRepo); the caller handles a non-string argument, on which trim() throws
parseGitHubRepoUrl(url) ==
  IF Len(url.v) >= 4 /\ url.v[1] \in {"https://github.com/", "git@github.com:"} /\ url.v[3] = "/"
  THEN <<url.v[2], "/", url.v[4]>>
  ELSE NoRepo

\* isGhAvailable: spawnSync reports a missing or failing command in its result
\* and does not throw, so the catch branch is never taken
isGhAvailable(g) == TRUE

\* createGitHubRepoAndPush: `gh repo create <repo> --private --source --push`
\* exits 0 when gh is installed and logged in, the host is reachable and the
\* repository does not exist yet
createGitHubRepoAndPush(url, g, reachable, rem) ==
  /\ parseGitHubRepoUrl(url) # NoRepo
  /\ isGhAvailable(g)
  /\ g = "ok" /\ reachable /\ rem.status = "absent"

\* git's error messages, word by word
RepoNotFoundErr == <<"remote", ":", "Repository", "not", "found", ".">>
ConnectErr == <<"fatal", ":", "unable", "to", "access", ":", "Failed", "to", "connect">>
RejectedErr == <<"error", ":", "failed", "to", "push", "some", "refs">>
GitFailedErr == <<"fatal", ":", "unable", "to", "auto-detect", "email", "address">>

\* String.prototype.toLowerCase, word by word
LowerWord(w) ==
  CASE w = "Repository" -> "repository"
    [] w = "Failed" -> "failed"
    [] w = "Could" -> "could"
    [] OTHER -> w

Lower(msg) == [i \in DOMAIN msg |-> LowerWord(msg[i])]

\* isRepoNotFoundError that takes every push failure for a missing repository
isRepoNotFoundErrorAny(msg) == TRUE

isRepoNotFoundError(msg) ==
  LET lower == Lower(msg)
  IN \/ Includes(lower, <<"repository", "not", "found">>)
     \/ Includes(lower, <<"could", "not", "read", "from", "remote">>)
     \/ Includes(lower, <<"does", "not", "appear", "to", "be", "a", "git", "repository">>)
     \/ Includes(lower, <<"remote", "repository", "is", "empty">>)
     \/ Includes(lower, <<"failed", "to", "connect">>)

\* The remote: no repository ("absent"), a repository without the branch
\* ("empty"), or a branch whose head commit `head` holds `tree`.
NoRemote == [status |-> "absent", tree |-> EmptyTree, head |-> 0]
EmptyRemote == [status |-> "empty", tree |-> EmptyTree, head |-> 0]
KeepTree == [p \in {GitKeep} |-> 0]
FreshRemote == [status |-> "present", tree |-> KeepTree, head |-> 1]

\* A temp directory: absent ("none"), just created ("empty"), a clone of the
\* remote's commit `base` ("clone"), or a bootstrapped repository ("boot", whose
\* history is unrelated to the remote's: base 0).  headTree is the tree of HEAD.
NoDir == [kind |-> "none", fs |-> EmptyFs, base |-> 0, headTree |-> EmptyTree]
NewDir == [kind |-> "empty", fs |-> EmptyFs, base |-> 0, headTree |-> EmptyTree]

\* a finally block that leaves the temp directory in place
rmSyncKeep(dir) == dir

\* rmSync(tempDir, {recursive, force})
rmSync(dir) == NoDir

\* git clone --branch: possible when the host is reachable and the branch exists
CanClone(reachable, rem) == reachable /\ rem.status = "present"

CloneOf(rem) == [kind |-> "clone", fs |-> Checkout(rem.tree), base |-> rem.head,
                 headTree |-> rem.tree]

\* a bootstrap that commits no placeholder
createTempVaultRepoBare ==
  [kind |-> "boot", fs |-> EmptyFs, base |-> 0, headTree |-> EmptyTree]

\* createTempVaultRepo: git init, vault/.gitkeep, commit, remote add, branch -M
createTempVaultRepo ==
  [kind |-> "boot", fs |-> [files |-> KeepTree, dirs |-> {VaultDir}], base |-> 0,
   headTree |-> KeepTree]

\* a status check that always reports changes
hasChangesAlways(dir) == TRUE

hasChangesNever(dir) == FALSE

\* git status: some entry is modified, untracked or deleted
hasChanges(dir) == dir.fs.files # dir.headTree

\* git add . ; git commit
Commit(dir) == [dir EXCEPT !.headTree = dir.fs.files]

\* a remote that accepts every push that reaches it
PushErrorLastWins(dir, reachable, rem) ==
  IF ~reachable THEN ConnectErr
  ELSE IF rem.status = "absent" THEN RepoNotFoundErr
  ELSE <<>>

\* git push origin <branch>: "" when accepted, else the error message.  A push
\* is accepted when it creates the branch or fast-forwards it.
PushError(dir, reachable, rem) ==
  IF ~reachable THEN ConnectErr
  ELSE IF rem.status = "absent" THEN RepoNotFoundErr
  ELSE IF rem.status = "empty" THEN <<>>
  ELSE IF dir.kind = "clone" /\ dir.base = rem.head THEN <<>>
  ELSE RejectedErr

\* the remote after an accepted push, or after gh created it from the temp dir
Pushed(dir, rem) == [status |-> "present", tree |-> dir.headTree, head |-> rem.head + 1]

\* the error storeToVault raises when the remote could not be created
StoreHint(url) ==
  LET repo == parseGitHubRepoUrl(url)
  IN IF repo # NoRepo
     THEN <<"Create the repo at ", "https://github.com/", "new?name=", repo[3],
            " (private), then run agvault store again.">>
     ELSE <<"Create a private repo at ", "https://github.com/", "new",
            " and use its URL in agvault init, then run agvault store again.">>

StoreCreateErr(url, g) ==
  <<"Remote repository not found. ">> \o
  (IF isGhAvailable(g) THEN <<"Run gh auth login and try again, or ">>
   ELSE <<"Install GitHub CLI and run gh auth login to create the repo automatically, or ">>)
  \o StoreHint(url)

(***************************************************************************)
(* State.                                                                  *)
(*   config[r]  the file .agvault/config.json of project root r            *)
(*   local[r]   the regular files under r: relative path -> content        *)
(*   remote     the vault repository                                       *)
(*   net, gh    whether the host is reachable; the state of the gh CLI     *)
(*   proc[r]    the agvault invocation running in r: its operation, its    *)
(*              position (pc), what it collected and what it returns       *)
(*   tmp[r]     the temp directory of that invocation's session            *)
(*   stale[r]   a temp directory of an earlier invocation still exists     *)
(*   hist       what earlier invocations stored and returned               *)
(*   budget     operations started and environment events so far           *)
(*   global     the file ~/.agvault/default.json: the default vault URL    *)
(***************************************************************************)
\* global-default.ts: no default.json, or one without a usable defaultRepoUrl
NoDefault == EmptyStr

NoStart == [remote |-> NoRemote, local |-> EmptyTree]

Idle ==
  [op |-> "none", pc |-> "idle", fn |-> "none", paths |-> {}, files |-> <<>>,
   steps |-> <<>>, ok |-> TRUE, err |-> <<>>, count |-> 0, pulled |-> 0, list |-> <<>>,
   flag |-> "", wrote |-> EmptyTree, touched |-> {}, commits |-> 0, pushes |-> 0,
   pushErr |-> <<>>, idem |-> FALSE, calm |-> TRUE, prevCount |-> 0, snapOk |-> FALSE, snapTree |-> EmptyTree,
   head |-> 0, start |-> NoStart]

NoRun == [set |-> FALSE, ok |-> FALSE, calm |-> FALSE, count |-> 0, local |-> EmptyTree, cfg |-> NoFile,
          remote |-> NoRemote, net |-> TRUE]

NoSnap == [set |-> FALSE, head |-> 0, tree |-> EmptyTree]

Ops == {"pull", "store", "sync", "purge", "list", "reinit"}
Probes == {"isInitialized", "isInitializedLegacy"}

FirstPc(op) ==
  CASE op = "store" -> "collect"
    [] op = "reinit" -> "reinit"
    [] op = "remove" -> "exclude"
    [] op = "add" -> "include"
    [] op = "init" -> "init"
    [] op \in Probes -> "probe"
    [] OTHER -> "open"

\* every operation handing the store callback to its session
FirstFnStore(op) == "store"

\* the callback the first session of the operation runs
FirstFn(op) ==
  IF op = "sync" THEN "pull" ELSE IF op \in {"remove", "add"} THEN "store" ELSE op

Quiet(r) == proc[r].pc \in {"idle", "done"}

\* the operation of r raises msg without further steps
Raise(r, msg) == [proc EXCEPT ![r].pc = "done", ![r].ok = FALSE, ![r].err = msg]

\* the callback of r's session raises msg: the finally block runs next
RaiseInSession(r, msg) == [proc EXCEPT ![r].pc = "close", ![r].ok = FALSE, ![r].err = msg]

Step(r, name) == Append(proc[r].steps, name)

\* the remote as it was when the last store of r returned is the remote now,
\* so the tree that store left there is still there
SnapValid(r) ==
  /\ hist.snap[r].set
  /\ hist.snap[r].tree = EmptyTree \/ (remote.status = "present" /\ remote.head = hist.snap[r].head)

\* a change made by the environment or by another invocation while q runs:
\* q did not run in one unchanged environment (calm), and "nothing changed
\* since my last store" (idem) holds no longer
Troubled(q) == [proc[q] EXCEPT !.idem = FALSE, !.calm = FALSE]

Disturb(S) == [q \in Roots |-> IF q \in S THEN Troubled(q) ELSE proc[q]]

(***************************************************************************)
(* The invocation: cli.ts hands the project root to one operation.         *)
(***************************************************************************)
Start(r, op, paths) ==
  /\ Quiet(r)
  /\ budget.ops < MaxOps
  /\ proc' = [proc EXCEPT ![r] =
       [Idle EXCEPT !.op = op, !.pc = FirstPc(op), !.fn = FirstFn(op), !.paths = paths,
                    !.idem = /\ op \in {"store", "sync"}
                             /\ hist.last[r].set /\ hist.last[r].ok /\ hist.last[r].calm
                             /\ hist.last[r].local = local[r] /\ hist.last[r].cfg = config[r]
                             /\ hist.last[r].remote = remote /\ hist.last[r].net = net,
                    !.prevCount = hist.last[r].count,
                    !.start = [remote |-> remote, local |-> local[r]]]]
  /\ tmp' = [tmp EXCEPT ![r] = NoDir]
  /\ stale' = [stale EXCEPT ![r] = @ \/ tmp[r].kind # "none"]
  /\ budget' = [budget EXCEPT !.ops = @ + 1]
  /\ UNCHANGED <<config, local, remote, net, gh, hist, global>>

\* isInitialized of config.ts, and the copy of it in global-default.ts
Probe(r) ==
  /\ proc[r].pc = "probe"
  /\ LET v == IF proc[r].op = "isInitialized" THEN isInitialized(config[r])
              ELSE isInitializedLegacy(config[r])
     IN proc' = IF v = "throw" THEN Raise(r, InvalidJsonMsg)
                ELSE [proc EXCEPT ![r].pc = "done", ![r].flag = v]
  /\ UNCHANGED <<config, local, remote, net, gh, tmp, stale, hist, budget, global>>

\* runReinit up to withTempVault: the config check and clearVault (the legacy
\* .agvault/repo directory is not part of the modelled project files)
Reinit(r) ==
  /\ proc[r].pc = "reinit"
  /\ LET c == loadConfig(config[r])
     IN proc' = IF c.tag = "throw" THEN Raise(r, InvalidJsonMsg)
                ELSE IF NoRepoUrl(c) THEN Raise(r, NotInitMsg)
                ELSE [proc EXCEPT ![r].pc = "open"]
  /\ UNCHANGED <<config, local, remote, net, gh, tmp, stale, hist, budget, global>>

\* collectFiles, called by storeToVault and syncVault before their session
Collect(r) ==
  /\ proc[r].pc = "collect"
  /\ LET c == loadConfig(config[r])
     IN proc' = IF c.tag = "throw" THEN Raise(r, InvalidJsonMsg)
                ELSE [proc EXCEPT ![r].pc = "open",
                                  ![r].files = collectFiles(c, local[r]),
                                  ![r].steps = IF c.tag = "null" THEN @ ELSE Append(@, "collect")]
  /\ UNCHANGED <<config, local, remote, net, gh, tmp, stale, hist, budget, global>>

(***************************************************************************)
(* withTempVault.                                                          *)
(***************************************************************************)
\* loadConfig, the "Not initialized" check and mkdtempSync
Open(r) ==
  /\ proc[r].pc = "open"
  /\ LET c == loadConfig(config[r])
     IN IF c.tag = "throw" \/ NoRepoUrl(c)
        THEN /\ proc' = Raise(r, IF c.tag = "throw" THEN InvalidJsonMsg ELSE NotInitMsg)
             /\ tmp' = tmp
        ELSE /\ proc' = [proc EXCEPT ![r].pc = "cred", ![r].steps = Append(@, "mkdtemp")]
             /\ tmp' = [tmp EXCEPT ![r] = NewDir]
  /\ UNCHANGED <<config, local, remote, net, gh, stale, hist, budget, global>>

\* the credential-helper setup before the try block:
\* parseGitHubRepoUrl(config.repoUrl) && isGhAvailable() -> ensureGhGitAuth()
Cred(r) ==
  /\ proc[r].pc = "cred"
  /\ LET c == loadConfig(config[r])
     IN proc' = IF c.repoUrl.t # "str" THEN Raise(r, TypeErrorMsg)
                ELSE [proc EXCEPT ![r].pc = "clone",
                                  ![r].steps = IF parseGitHubRepoUrl(c.repoUrl) # NoRepo /\ isGhAvailable(gh)
                                               THEN Append(@, "ghauth") ELSE @]
  /\ UNCHANGED <<config, local, remote, net, gh, tmp, stale, hist, budget, global>>

\* git clone --branch; on any failure the catch block bootstraps
Clone(r) ==
  /\ proc[r].pc = "clone"
  /\ IF CanClone(net, remote)
     THEN /\ tmp' = [tmp EXCEPT ![r] = CloneOf(remote)]
          /\ proc' = [proc EXCEPT ![r].pc = "run", ![r].steps = Append(@, "clone"),
                                  ![r].head = remote.head,
                                  ![r].snapOk = SnapValid(r), ![r].snapTree = hist.snap[r].tree]
     ELSE /\ tmp' = tmp
          /\ proc' = [proc EXCEPT ![r].pc = "boot", ![r].steps = Append(@, "clonefail"),
                                  ![r].snapOk = SnapValid(r), ![r].snapTree = hist.snap[r].tree]
  /\ UNCHANGED <<config, local, remote, net, gh, stale, hist, budget, global>>

\* createTempVaultRepo; a failing git command in it raises inside the try block
\* (a git that stopped working is a change of the environment)
Boot(r) ==
  /\ proc[r].pc = "boot"
  /\ \E gitOk \in BOOLEAN :
       IF gitOk
       THEN /\ tmp' = [tmp EXCEPT ![r] = createTempVaultRepo]
            /\ proc' = [proc EXCEPT ![r].pc = "run", ![r].steps = Append(@, "boot")]
       ELSE /\ tmp' = tmp
            /\ proc' = [RaiseInSession(r, GitFailedErr) EXCEPT ![r] = [@ EXCEPT !.idem = FALSE, !.calm = FALSE]]
  /\ UNCHANGED <<config, local, remote, net, gh, stale, hist, budget, global>>

(***************************************************************************)
(* The callbacks handed to withTempVault.                                  *)
(***************************************************************************)
\* the paths on which two working trees differ
Diff(f, g) ==
  {p \in (DOMAIN f) \cup (DOMAIN g) : p \notin DOMAIN f \/ p \notin DOMAIN g \/ f[p] # g[p]}

\* pullFromVault's callback: copyFromVault
RunPull(r) ==
  LET res == copyFromVault(tmp[r].fs, r, proc[r].paths, local[r])
      out == CopyOut(tmp[r].fs, r, proc[r].paths)
  IN /\ local' = [local EXCEPT ![r] = res.tree]
     /\ proc' = [proc EXCEPT ![r].pc = "close", ![r].count = res.count, ![r].wrote = out,
                             ![r].touched = PullSources(tmp[r].fs, r, proc[r].paths),
                             ![r].steps = Append(@, "copyout")]
     /\ UNCHANGED <<tmp, remote, hist>>

\* listVaultFilesRemote's callback: listVaultFiles
RunList(r) ==
  /\ proc' = [proc EXCEPT ![r].pc = "close", ![r].list = listVaultFiles(tmp[r].fs),
                          ![r].touched = {VaultDir \o p : p \in Range(listVaultFiles(tmp[r].fs))},
                          ![r].steps = Append(@, "list")]
  /\ UNCHANGED <<tmp, local, remote, hist>>

\* listVaultFilesForProjectRemote's callback
RunListProject(r) ==
  /\ proc' = [proc EXCEPT ![r].pc = "close",
                          ![r].list = listVaultFilesForProject(tmp[r].fs, r),
                          ![r].touched = {WorkspaceRoot(r) \o p :
                                            p \in Range(listVaultFilesForProject(tmp[r].fs, r))},
                          ![r].steps = Append(@, "list")]
  /\ UNCHANGED <<tmp, local, remote, hist>>

\* runReinit's callback does nothing
RunReinit(r) ==
  /\ proc' = [proc EXCEPT ![r].pc = "close", ![r].steps = Append(@, "verify")]
  /\ UNCHANGED <<tmp, local, remote, hist>>

\* a purge that removes no entry
purgeEntriesNone(fs) == fs

\* purgeVault's loop and placeholder: every entry of vault/ removed, then
\* vault/.gitkeep written
purgeEntries(fs) ==
  LET kept == {f \in DOMAIN fs.files : ~Under(VaultDir, f)}
  IN [files |-> Overlay(Restrict(fs.files, kept), KeepTree),
      dirs |-> {d \in fs.dirs : ~Under(VaultDir, d)}]

\* purgeVault's callback up to the push: the entries removed, .gitkeep
\* written, all staged and committed
RunPurge(r) ==
  LET fs0 == tmp[r].fs
      fs1 == purgeEntries(fs0)
  IN /\ IF VaultDir \notin fs0.dirs
        THEN /\ tmp' = tmp
             /\ proc' = [proc EXCEPT ![r].pc = "close"]
        ELSE /\ tmp' = [tmp EXCEPT ![r] = Commit([@ EXCEPT !.fs = fs1])]
             /\ proc' = [proc EXCEPT ![r].pc = "push", ![r].commits = @ + 1,
                                     ![r].steps = Append(@, "commit"),
                                     ![r].touched = {f \in DOMAIN fs0.files : Under(VaultDir, f)}
                                                    \cup {GitKeep}]
     /\ UNCHANGED <<local, remote, hist>>

\* the callback of storeToVault and of syncVault's second session, up to the
\* push: copy-in, prune, status, add, commit
RunStore(r) ==
  LET fs0 == tmp[r].fs
      fs1 == copyToVault(proc[r].files, fs0, r, local[r])
      fs2 == removeExcludedFromVault(fs1, r, Range(proc[r].files))
      dir == [tmp[r] EXCEPT !.fs = fs2]
      touched == Diff(fs0.files, fs2.files)
                 \cup {WorkspaceRoot(r) \o p : p \in Range(proc[r].files)}
  IN /\ IF ~hasChanges(dir)
        THEN /\ tmp' = [tmp EXCEPT ![r] = dir]
             /\ proc' = [proc EXCEPT ![r].pc = "close", ![r].touched = touched,
                                     ![r].count = IF proc[r].fn = "store" THEN Len(proc[r].files) ELSE 0,
                                     ![r].steps = Append(@, "copyin")]
        ELSE /\ tmp' = [tmp EXCEPT ![r] = Commit(dir)]
             /\ proc' = [proc EXCEPT ![r].pc = "push", ![r].touched = touched,
                                     ![r].commits = @ + 1,
                                     ![r].steps = @ \o <<"copyin", "commit">>]
     /\ UNCHANGED <<local, remote, hist>>

Run(r) ==
  /\ proc[r].pc = "run"
  /\ CASE proc[r].fn = "pull" -> RunPull(r)
       [] proc[r].fn = "list" -> RunList(r)
       [] proc[r].fn = "listProject" -> RunListProject(r)
       [] proc[r].fn = "reinit" -> RunReinit(r)
       [] proc[r].fn = "purge" -> RunPurge(r)
       [] OTHER -> RunStore(r)
  /\ UNCHANGED <<config, net, gh, stale, budget, global>>

\* what the files of r's temp tree record as stored by r
StoredNow(r) == {<<r, p, local[r][p]>> : p \in Range(proc[r].files)}

\* git push of the callback, and for store and sync the handling of its failure
Push(r) ==
  /\ proc[r].pc = "push"
  /\ LET e == PushError(tmp[r], net, remote)
         c == loadConfig(config[r])
         storing == proc[r].fn \in {"store", "sync"}
         create == storing /\ e # <<>> /\ isRepoNotFoundError(e)
         created == create /\ isGhAvailable(gh) /\ createGitHubRepoAndPush(c.repoUrl, gh, net, remote)
         accepted == e = <<>> \/ created
         steps == proc[r].steps \o <<"push">> \o (IF create THEN <<"create">> ELSE <<>>)
     IN /\ remote' = IF accepted THEN Pushed(tmp[r], remote) ELSE remote
        /\ hist' = IF accepted /\ storing
                   THEN [hist EXCEPT !.stored = @ \cup StoredNow(r)] ELSE hist
        /\ proc' = [q \in Roots |->
             IF q = r
             THEN [proc[r] EXCEPT
                     !.pc = "close", !.pushes = @ + 1, !.steps = steps, !.pushErr = e,
                     !.ok = accepted,
                     !.head = IF accepted THEN remote.head + 1 ELSE @,
                     !.count = IF accepted /\ storing THEN Len(proc[r].files) ELSE @,
                     !.err = IF accepted THEN <<>>
                             ELSE IF create /\ proc[r].fn = "store" THEN StoreCreateErr(c.repoUrl, gh)
                             ELSE e]
             ELSE IF accepted THEN Troubled(q) ELSE proc[q]]
  /\ UNCHANGED <<config, local, net, gh, tmp, stale, budget, global>>

\* the finally block: rmSync of the temp directory; then the operation returns
\* or raises, or syncVault goes on to collect for its second session
Close(r) ==
  /\ proc[r].pc = "close"
  /\ tmp' = [tmp EXCEPT ![r] = rmSync(@)]
  /\ LET again == proc[r].op = "sync" /\ proc[r].fn = "pull" /\ proc[r].ok
         p == proc[r]
     IN /\ proc' = IF again
                   THEN [proc EXCEPT ![r].pc = "collect", ![r].fn = "sync", ![r].pulled = p.count,
                                     ![r].count = 0]
                   ELSE [proc EXCEPT ![r].pc = "done"]
        /\ hist' = IF again THEN hist
                   ELSE [hist EXCEPT
                     !.last[r] = IF p.op = "store"
                                 THEN [set |-> TRUE, ok |-> p.ok, calm |-> p.calm, count |-> p.count,
                                       local |-> local[r], cfg |-> config[r],
                                       remote |-> remote, net |-> net]
                                 ELSE NoRun,
                     !.snap[r] = IF p.op = "store" /\ p.ok
                                 THEN [set |-> TRUE, head |-> p.head,
                                       tree |-> [f \in Range(p.files) |-> local[r][f]]]
                                 ELSE @]
  /\ UNCHANGED <<config, local, remote, net, gh, stale, budget, global>>

(***************************************************************************)
(* The environment: the user edits project files and the config between    *)
(* invocations; the network comes and goes at any time.                    *)
(***************************************************************************)
\* an addToExclude that does not save
addToExcludeNone(file, path) == file

\* config.ts addToExclude (the remove command's first step): the file saved,
\* unchanged when the project is not initialized or the path is listed already
addToExclude(file, path) ==
  LET c == loadConfig(file)
  IN IF c.tag = "throw" \/ NoRepoUrl(c) THEN file
     ELSE IF path \in Range(c.exclude) THEN file
     ELSE saveConfig([c EXCEPT !.exclude = Append(@, path)])

\* the remove command: addToExclude for the path, then removeFromVault, which
\* vault.ts does not define: taken from the specification's Remove, the
\* copy-in/prune sequence of store under the new exclude list
Remove(r) ==
  /\ proc[r].pc = "exclude"
  /\ LET c == loadConfig(config[r])
         p == CHOOSE x \in proc[r].paths : TRUE
     IN IF c.tag = "throw" \/ NoRepoUrl(c)
        THEN /\ proc' = Raise(r, IF c.tag = "throw" THEN InvalidJsonMsg ELSE NotInitMsg)
             /\ config' = config
        ELSE /\ proc' = [proc EXCEPT ![r].pc = "collect", ![r].steps = Append(@, "exclude")]
             /\ config' = [config EXCEPT ![r] = addToExclude(@, p)]
  /\ UNCHANGED <<local, remote, net, gh, tmp, stale, hist, budget, global>>

\* config.ts ensurePathIncluded: the path filtered out of exclude, appended to
\* include when it is not there, the file saved
ensurePathIncluded(file, path) ==
  LET c == loadConfig(file)
  IN IF c.tag = "throw" \/ NoRepoUrl(c) THEN file
     ELSE saveConfig([c EXCEPT !.exclude = SelectSeq(@, LAMBDA x : x # path),
                               !.include = IF path \in Range(@) THEN @ ELSE Append(@, path)])

\* the add command with a path: isInitialized, ensurePathIncluded, then
\* storeToVault
Add(r) ==
  /\ proc[r].pc = "include"
  /\ LET c == loadConfig(config[r])
         p == CHOOSE x \in proc[r].paths : TRUE
     IN IF c.tag = "throw" \/ NoRepoUrl(c)
        THEN /\ proc' = Raise(r, IF c.tag = "throw" THEN InvalidJsonMsg ELSE NotInitMsg)
             /\ config' = config
        ELSE /\ proc' = [proc EXCEPT ![r].pc = "collect", ![r].steps = Append(@, "include")]
             /\ config' = [config EXCEPT ![r] = ensurePathIncluded(@, p)]
  /\ UNCHANGED <<local, remote, net, gh, tmp, stale, hist, budget, global>>

(***************************************************************************)
(* init.ts: runInit.  The answers the user gives to its prompts are the    *)
(* record `a`: fix (overwrite an invalid config), redo (re-enter repo and  *)
(* patterns), customize, inc and exc (the comma-separated extra patterns,  *)
(* already split at the commas), url (the repo URL typed), createRepo.     *)
(***************************************************************************)
\* .map(trim).filter(Boolean): the empty entries dropped
SplitExtra(entries) == SelectSeq(entries, LAMBDA x : x # <<>>)

\* if (extra.length) list = [...new Set([...list, ...extra])]
WithExtra(list, entries, customize) ==
  IF customize /\ SplitExtra(entries) # <<>>
  THEN AddUnseen(<<>>, list \o SplitExtra(entries)) ELSE list

\* gh.ts createGitHubRepoByName: gh repo create (or, when the name exists,
\* gh repo view) succeeds when gh is installed and logged in and the host is
\* reachable
createGitHubRepoByName(g, reachable) == isGhAvailable(g) /\ g = "ok" /\ reachable

InitAnswers ==
  [fix : BOOLEAN, redo : BOOLEAN, customize : BOOLEAN, createRepo : BOOLEAN,
   url : {EmptyStr, GitHubUrl},
   inc : {<<>>, << <<"notes", "**">>, <<>> >>},
   exc : {<<>>, << <<"a.md">>, <<".git", "**">> >>}]

\* an init that writes a new config whatever it finds and whatever the answers
runInitNoAsk(file, dflt, g, reachable, a) ==
  [config |-> saveConfig([tag |-> "ok", repoUrl |-> GitHubUrl, include |-> DEFAULT_INCLUDE,
                          exclude |-> DEFAULT_EXCLUDE, branch |-> "main"]),
   global |-> GitHubUrl, created |-> FALSE, steps |-> <<"saveConfig", "saveGlobalDefault">>]

\* runInit: the config file and the global default it leaves, whether it
\* created the repository, and the steps it took
runInit(file, dflt, g, reachable, a) ==
  LET loaded == loadConfig(file)
      invalid == loaded.tag = "throw"
      existing == IF invalid THEN CfgNull ELSE loaded
      hasExisting == existing.tag # "null" /\ Truthy(existing.repoUrl)
      include == WithExtra(IF existing.tag = "null" THEN DEFAULT_INCLUDE ELSE existing.include,
                           a.inc, a.customize)
      exclude == WithExtra(IF existing.tag = "null" THEN DEFAULT_EXCLUDE ELSE existing.exclude,
                           a.exc, a.customize)
      asked == IF invalid THEN <<"confirm">> ELSE <<>>
      Returned(steps, made) ==
        [config |-> file, global |-> dflt, created |-> made, steps |-> asked \o steps]
      Initialized(url, made) ==
        [config |-> saveConfig([tag |-> "ok", repoUrl |-> url, include |-> include,
                                exclude |-> exclude, branch |-> existing.branch]),
         global |-> Str(url.v), created |-> made,
         steps |-> asked \o <<"saveConfig", "saveGlobalDefault">>]
  IN IF invalid /\ ~a.fix THEN [Returned(<<>>, FALSE) EXCEPT !.steps = <<"declined">>]
     ELSE IF hasExisting /\ ~a.redo
       THEN [config |-> saveConfig([existing EXCEPT !.include = include, !.exclude = exclude]),
             global |-> dflt, created |-> FALSE, steps |-> asked \o <<"saveConfig">>]
     ELSE IF Truthy(dflt) THEN Initialized(dflt, FALSE)
     ELSE IF Truthy(a.url) THEN Initialized(a.url, FALSE)
     ELSE IF ~a.createRepo THEN Returned(<<"nourl">>, FALSE)
     ELSE IF ~isGhAvailable(g) THEN Returned(<<"nogh">>, FALSE)
     ELSE IF createGitHubRepoByName(g, reachable) THEN Initialized(GitHubUrl, TRUE)
     ELSE Returned(<<"createfailed">>, FALSE)

\* the init command; flag keeps the answer to "Overwrite with new config?"
RunInit(r) ==
  /\ proc[r].pc = "init"
  /\ \E a \in InitAnswers :
       LET res == runInit(config[r], global, gh, net, a)
       IN /\ config' = [config EXCEPT ![r] = res.config]
          /\ global' = res.global
          /\ remote' = IF res.created /\ remote.status = "absent" THEN EmptyRemote ELSE remote
          /\ proc' = [proc EXCEPT ![r].pc = "done", ![r].steps = res.steps,
                                  ![r].flag = IF a.fix THEN "overwrite" ELSE "keep"]
  /\ UNCHANGED <<local, net, gh, tmp, stale, hist, budget>>

EditFile(r, p, v) ==
  /\ Quiet(r) /\ budget.env < MaxEnv
  /\ local' = [local EXCEPT ![r] = Overlay(@, [x \in {p} |-> v])]
  /\ budget' = [budget EXCEPT !.env = @ + 1]
  /\ UNCHANGED <<config, remote, net, gh, proc, tmp, stale, hist, global>>

\* the project root emptied of its files
EmptyRoot(r) ==
  /\ Quiet(r) /\ budget.env < MaxEnv
  /\ local[r] # EmptyTree
  /\ local' = [local EXCEPT ![r] = EmptyTree]
  /\ budget' = [budget EXCEPT !.env = @ + 1]
  /\ UNCHANGED <<config, remote, net, gh, proc, tmp, stale, hist, global>>

Exclude(r, p) ==
  /\ Quiet(r) /\ budget.env < MaxEnv
  /\ addToExclude(config[r], p) # config[r]
  /\ config' = [config EXCEPT ![r] = addToExclude(@, p)]
  /\ budget' = [budget EXCEPT !.env = @ + 1]
  /\ UNCHANGED <<local, remote, net, gh, proc, tmp, stale, hist, global>>

NetToggle ==
  /\ budget.env < MaxEnv
  /\ net' = ~net
  /\ proc' = Disturb(Roots)
  /\ budget' = [budget EXCEPT !.env = @ + 1]
  /\ UNCHANGED <<config, local, remote, gh, tmp, stale, hist, global>>

(***************************************************************************)
(* Specifications.                                                         *)
(***************************************************************************)
Contents == {1, 2}

InitCommon ==
  /\ net = TRUE
  /\ global = NoDefault
  /\ proc = [r \in Roots |-> Idle]
  /\ tmp = [r \in Roots |-> NoDir]
  /\ stale = [r \in Roots |-> FALSE]
  /\ hist = [stored |-> {}, last |-> [r \in Roots |-> NoRun], snap |-> [r \in Roots |-> NoSnap]]
  /\ budget = [ops |-> 0, env |-> 0]

\* the config files of the one-project specification: none, unparseable,
\* without repoUrl, and with a repoUrl of each kind
SoloConfigs ==
  {NoFile, BadFile, JsonFile({"include"}, EmptyStr, DEFAULT_INCLUDE, <<>>),
   JsonFile({"repoUrl"}, GitHubUrl, <<>>, <<>>), JsonFile({"repoUrl"}, PlainUrl, <<>>, <<>>),
   JsonFile({"repoUrl"}, NumberUrl, <<>>, <<>>)}

\* the config that init writes for a GitHub vault with the default patterns
GoodConfig == JsonFile({"repoUrl"}, GitHubUrl, <<>>, <<>>)

\* the --file arguments of pull: a relative path, a bare file name
PullFilters == {{<<"a.md">>}, {<<"c.txt">>}}

SoloTree == [p \in {<<"a.md">>, <<"b", "c.txt">>} |-> 1]

\* One project, every operation, every configuration, every failure.
Init ==
  /\ InitCommon
  /\ \E c \in SoloConfigs : config = [r \in Roots |-> IF r = RootA THEN c ELSE NoFile]
  /\ \E t \in {EmptyTree, SoloTree} : local = [r \in Roots |-> IF r = RootA THEN t ELSE EmptyTree]
  /\ remote \in {NoRemote, EmptyRemote, FreshRemote}
  /\ gh \in {"ok", "missing"}

Act(r) ==
  \/ Probe(r) \/ Reinit(r) \/ Collect(r) \/ Open(r) \/ Cred(r) \/ Clone(r) \/ Boot(r)
  \/ Run(r) \/ Push(r) \/ Close(r)

\* the steps of an operation that starts with collectFiles or a session
ActFiles(r) ==
  \/ Collect(r) \/ Open(r) \/ Cred(r) \/ Clone(r) \/ Boot(r) \/ Run(r) \/ Push(r) \/ Close(r)

Next ==
  \/ \E op \in Ops \cup Probes : Start(RootA, op, {})
  \/ \E ps \in PullFilters : Start(RootA, "pull", ps)
  \/ Act(RootA)
  \/ NetToggle

Spec == Init /\ [][Next]_vars

\* collectFiles applied to every project tree under include and exclude lists
\* of each shape: one pattern, patterns that overlap, a directory pattern first
CollectIncludes ==
  { << <<"**", "*.md">> >>,
    << <<"*.md">>, <<"**", "*.md">> >>,
    << <<"b", "**">>, <<"**", "*.md">>, <<"*.md">> >>,
    DEFAULT_INCLUDE }

CollectExcludes == { <<>>, << <<"b", "**">> >>, << <<"a.md">> >>, DEFAULT_EXCLUDE }

CollectConfigs ==
  {JsonFile({"repoUrl", "include", "exclude"}, GitHubUrl, inc, exc) :
     inc \in CollectIncludes, exc \in CollectExcludes}

InitCollect ==
  /\ InitCommon
  /\ \E c \in CollectConfigs : config = [r \in Roots |-> IF r = RootA THEN c ELSE NoFile]
  /\ \E S \in SUBSET RelPaths :
        local = [r \in Roots |-> IF r = RootA THEN [p \in S |-> 1] ELSE EmptyTree]
  /\ remote = FreshRemote
  /\ gh = "ok"

NextCollect ==
  \/ Start(RootA, "store", {})
  \/ Collect(RootA)

SpecCollect == InitCollect /\ [][NextCollect]_vars

\* One project pulls with a --file filter from a vault whose workspace holds
\* files that share a name, at several depths, next to another workspace.
PullTree ==
  [f \in {GitKeep, <<"vault", "other", "a.md">>} \cup {<<"vault", "proj">> \o p : p \in RelPaths}
     |-> IF f = GitKeep THEN 0 ELSE 1]

PullRemote == [status |-> "present", tree |-> PullTree, head |-> 2]

\* the filters: a relative path that is also a bare name, a relative path, a
\* vault-qualified path, a suffix of two segments, a bare name, a directory
\* name, a path of another workspace, and two filters of two paths
FilterSets ==
  { {<<"a.md">>}, {<<"b", "a.md">>}, {<<"proj", "b", "c.md">>}, {<<"pkg", "readme.md">>},
    {<<"c.txt">>}, {<<"b">>}, {<<"other", "a.md">>},
    {<<"README.md">>, <<"c.md">>}, {<<"proj", "a.md">>, <<"c.txt">>} }

InitPull ==
  /\ InitCommon
  /\ config = [r \in Roots |-> IF r = RootA THEN GoodConfig ELSE NoFile]
  /\ \E t \in {EmptyTree, [p \in RelPaths |-> 2]} :
        local = [r \in Roots |-> IF r = RootA THEN t ELSE EmptyTree]
  /\ remote = PullRemote
  /\ gh = "ok"

NextPull ==
  \/ \E ps \in FilterSets : Start(RootA, "pull", ps)
  \/ Open(RootA) \/ Cred(RootA) \/ Clone(RootA) \/ Run(RootA) \/ Close(RootA)

SpecPull == InitPull /\ [][NextPull]_vars

\* One project whose config is written by init, add and remove.
BareConfig == JsonFile({"include"}, EmptyStr, DEFAULT_INCLUDE, <<>>)

AddPaths == {<<"b", "c.txt">>, <<"node_modules", "**">>}

InitConfig ==
  /\ net = TRUE
  /\ proc = [r \in Roots |-> Idle]
  /\ tmp = [r \in Roots |-> NoDir]
  /\ stale = [r \in Roots |-> FALSE]
  /\ hist = [stored |-> {}, last |-> [r \in Roots |-> NoRun], snap |-> [r \in Roots |-> NoSnap]]
  /\ budget = [ops |-> 0, env |-> 0]
  /\ \E c \in {NoFile, BadFile, BareConfig} :
        config = [r \in Roots |-> IF r = RootA THEN c ELSE NoFile]
  /\ local = [r \in Roots |-> IF r = RootA THEN SoloTree ELSE EmptyTree]
  /\ remote \in {NoRemote, FreshRemote}
  /\ gh \in {"ok", "missing"}
  /\ global \in {NoDefault, PlainUrl}

NextConfig ==
  \/ Start(RootA, "init", {})
  \/ RunInit(RootA)
  \/ \E p \in AddPaths : Start(RootA, "add", {p})
  \/ Add(RootA)
  \/ Start(RootA, "remove", {<<"a.md">>})
  \/ Remove(RootA)
  \/ ActFiles(RootA)

SpecConfig == InitConfig /\ [][NextConfig]_vars

\* One initialized project whose files and exclude list change between
\* stores and pulls.

\* the project of the README scenario
ReadmeTree == [p \in {<<"README.md">>, <<"node_modules", "pkg", "readme.md">>} |-> 1]

\* a vault that holds the workspaces of two projects
SharedTree ==
  [p \in {GitKeep, <<"vault", "proj", "a.md">>, <<"vault", "other", "a.md">>} |->
     IF p = GitKeep THEN 0 ELSE IF p[2] = "proj" THEN 1 ELSE 2]

SharedRemote == [status |-> "present", tree |-> SharedTree, head |-> 3]

InitFiles ==
  /\ InitCommon
  /\ config = [r \in Roots |-> IF r = RootA THEN GoodConfig ELSE NoFile]
  /\ \E t \in {EmptyTree, SoloTree, ReadmeTree} :
        local = [r \in Roots |-> IF r = RootA THEN t ELSE EmptyTree]
  /\ remote \in {NoRemote, FreshRemote, SharedRemote}
  /\ gh = "ok"

NextFiles ==
  \/ \E op \in {"store", "pull", "listProject"} : Start(RootA, op, {})
  \/ Start(RootA, "remove", {<<"a.md">>})
  \/ Remove(RootA)
  \/ ActFiles(RootA)
  \/ \E p \in {<<"a.md">>, <<"b", "a.md">>}, v \in Contents : EditFile(RootA, p, v)
  \/ EmptyRoot(RootA)
  \/ Exclude(RootA, <<"a.md">>)
  \/ NetToggle

SpecFiles == InitFiles /\ [][NextFiles]_vars

\* One project syncs with a vault that holds an older a.md of it: the project
\* has edited a.md and has a file the vault does not hold.
EditedTree == [p \in {<<"a.md">>, <<"b", "a.md">>} |-> 2]

InitSync ==
  /\ InitCommon
  /\ config = [r \in Roots |-> IF r = RootA THEN GoodConfig ELSE NoFile]
  /\ \E t \in {EmptyTree, SoloTree, EditedTree} :
        local = [r \in Roots |-> IF r = RootA THEN t ELSE EmptyTree]
  /\ remote = SharedRemote
  /\ gh = "ok"

NextSync ==
  \/ Start(RootA, "sync", {})
  \/ ActFiles(RootA)
  \/ NetToggle

SpecSync == InitSync /\ [][NextSync]_vars

\* Three initialized projects, two of them with the same directory name, on
\* one vault that already holds what RootA and RootC stored.
SharedLocal ==
  [r \in Roots |-> IF r = RootA THEN [p \in {<<"a.md">>} |-> 1]
                   ELSE IF r = RootB THEN [p \in {<<"b", "a.md">>} |-> 2]
                   ELSE [p \in {<<"a.md">>, <<"b", "a.md">>} |-> 2]]

InitShared ==
  /\ net = TRUE
  /\ global = NoDefault
  /\ proc = [r \in Roots |-> Idle]
  /\ tmp = [r \in Roots |-> NoDir]
  /\ stale = [r \in Roots |-> FALSE]
  /\ budget = [ops |-> 0, env |-> 0]
  /\ config = [r \in Roots |-> GoodConfig]
  /\ local = SharedLocal
  /\ gh = "ok"
  /\ \/ /\ remote = SharedRemote
        /\ hist = [stored |-> {<<RootA, <<"a.md">>, 1>>, <<RootC, <<"a.md">>, 2>>},
                   last |-> [r \in Roots |-> NoRun], snap |-> [r \in Roots |-> NoSnap]]
     \/ /\ remote = EmptyRemote
        /\ hist = [stored |-> {}, last |-> [r \in Roots |-> NoRun],
                   snap |-> [r \in Roots |-> NoSnap]]

NextShared ==
  \E r \in Roots :
    \/ \E op \in {"store", "pull", "sync", "purge", "list"} : Start(r, op, {})
    \/ ActFiles(r)

SpecShared == InitShared /\ [][NextShared]_vars

(***************************************************************************)
(* Properties.                                                             *)
(***************************************************************************)
Done(r) == proc[r].pc = "done"

DidStep(r, name) == name \in Range(proc[r].steps)

\* C1: every call of withTempVault that created a temp directory has removed
\* it when the call has returned or raised, whichever step failed (credential
\* setup, clone, bootstrap or the supplied operation).
C1_TempDirRemoved ==
  \A r \in Roots : Done(r) /\ DidStep(r, "mkdtemp") => tmp[r].kind = "none"

\* C2: a store that follows a successful store, with the local files, the
\* config and the remote (its reachability included) unchanged in between and
\* meanwhile, makes no commit and no push and returns the same file count.
C2_StoreIdempotent ==
  \A r \in Roots :
    Done(r) /\ proc[r].op = "store" /\ proc[r].idem
      => /\ proc[r].ok
         /\ proc[r].commits = 0 /\ proc[r].pushes = 0
         /\ proc[r].count = proc[r].prevCount

C2_Witness ==
  \E r \in Roots :
    Done(r) /\ proc[r].op = "store" /\ proc[r].idem /\ proc[r].prevCount > 0
      /\ DidStep(r, "clone")

\* C3: a pull that returns after a successful store (the remote unchanged
\* since) has written every file that store collected, at its relative path,
\* with the stored content.
C3_RoundTrip ==
  \A r \in Roots :
    Done(r) /\ proc[r].op = "pull" /\ proc[r].ok /\ proc[r].snapOk
      => \A p \in DOMAIN proc[r].snapTree :
           p \in DOMAIN proc[r].wrote /\ proc[r].wrote[p] = proc[r].snapTree[p]

StoreReturns(r) ==
  proc[r].pc = "close" /\ proc'[r].pc = "done" /\ proc[r].op = "store" /\ proc[r].ok

PullCopies(r) ==
  proc[r].pc = "run" /\ proc[r].fn = "pull" /\ proc[r].op = "pull" /\ proc'[r].pc = "close"

StoredBefore(r, p) == \E v \in Contents : <<r, p, v>> \in hist.stored

\* C4: when a store returns successfully, no file that was stored earlier and
\* that the config now excludes is left in the remote workspace tree, and the
\* pull that follows that store does not write such a file.
C4_PruneExcluded ==
  [][\A r \in Roots :
       /\ StoreReturns(r) =>
            \A p \in RelPaths :
               StoredBefore(r, p) /\ Ignored(loadConfig(config[r]).exclude, p)
                 => WorkspaceRoot(r) \o p \notin DOMAIN remote'.tree
       /\ PullCopies(r) /\ hist.last[r].set /\ hist.last[r].ok =>
            \A p \in RelPaths :
               Ignored(loadConfig(hist.last[r].cfg).exclude, p)
                 => p \notin DOMAIN proc'[r].wrote]_vars

\* the part of a vault tree under the workspace of q
Partition(tree, q) == Restrict(tree, {f \in DOMAIN tree : Under(WorkspaceRoot(q), f)})

StoredOnlyByOthers(stored, r, p, v) ==
  /\ \E q \in Roots : basename(q) # basename(r) /\ <<q, p, v>> \in stored
  /\ ~\E q \in Roots : basename(q) = basename(r) /\ <<q, p, v>> \in stored

StorePushes(r) ==
  /\ proc[r].pc = "push" /\ proc'[r].pc = "close" /\ proc[r].op \in {"store", "sync"}
  /\ remote' # remote

Own(r, S) == \A f \in S : Under(WorkspaceRoot(r), f)

\* C6 as claimed: no operation of a project, purge and list included, reads
\* or writes a vault file outside the project's workspace partition.
C6_EveryOperationOwnPartition ==
  \A r \in Roots : Own(r, proc[r].touched)

\* C6 as amended: pull, store and sync read and write vault files of the
\* project's own partition only (purge and listVaultFilesRemote go through
\* every partition).
C6_PullStoreSyncOwnPartition ==
  \A r \in Roots : proc[r].op \in {"pull", "store", "sync"} => Own(r, proc[r].touched)

C6_Witness ==
  \E r \in Roots :
    /\ Done(r) /\ proc[r].op \in {"store", "sync"} /\ proc[r].ok /\ proc[r].pushes = 1
    /\ proc[r].touched # {}
    /\ \E q \in Roots : basename(q) # basename(r) /\ Partition(remote.tree, q) # EmptyTree

\* the file p that q stored with content v is in the tree at q's partition
Holds(tree, q, p, v) ==
  WorkspaceRoot(q) \o p \in DOMAIN tree /\ tree[WorkspaceRoot(q) \o p] = v

Kept(r, q) ==
  StorePushes(r) =>
    \A t \in hist.stored :
       t[1] = q /\ Holds(remote.tree, q, t[2], t[3]) => Holds(remote'.tree, q, t[2], t[3])

C8_NotInitializedFirst ==
  \A r \in Roots :
    Done(r) /\ proc[r].op \in Ops /\ isInitialized(config[r]) = "false"
      => /\ ~proc[r].ok /\ proc[r].err = NotInitMsg
         /\ proc[r].steps = <<>>
         /\ remote = proc[r].start.remote /\ local[r] = proc[r].start.local

\* C9: with an unparseable config file, isInitialized (in each of its
\* definitions) and every operation fail with the "Invalid JSON" error; none
\* returns, and "false" is returned only for a missing file or repoUrl.
C9_InvalidJsonDistinct ==
  \A r \in Roots :
    Done(r) /\ config[r].kind = "invalid"
      => ~proc[r].ok /\ Includes(proc[r].err, <<"Invalid JSON in .agvault/config.json">>)

\* C10: when the remote repository does not exist, a store with files to
\* store bootstraps, pushes and then tries to create the remote; when that
\* fails, the error contains the configured repoUrl.
C10_MissingRemoteNamesUrl ==
  \A r \in Roots :
    Done(r) /\ proc[r].op = "store" /\ proc[r].start.remote.status = "absent"
            /\ proc[r].files # <<>> /\ DidStep(r, "boot")
      => /\ DidStep(r, "push") /\ DidStep(r, "create")
         /\ ~proc[r].ok => Includes(proc[r].err, loadConfig(config[r]).repoUrl.v)

\* the fixed substrings that stand for "the repository does not exist yet"
MissingRepoWords ==
  { <<"repository", "not", "found">>, <<"could", "not", "read", "from", "remote">>,
    <<"does", "not", "appear", "to", "be", "a", "git", "repository">>,
    <<"remote", "repository", "is", "empty">>, <<"failed", "to", "connect">> }

NamesMissingRepo(msg) == \E w \in MissingRepoWords : Includes(Lower(msg), w)

Pushing(r) == proc[r].op \in {"store", "sync"} /\ proc[r].pushes = 1

\* C11: in store and in sync the auto-create path is entered exactly when the
\* push failed with a message holding one of the fixed substrings; any other
\* push failure is the error the caller gets, unchanged, with no creation.
C11_CreateIffMissingRepo ==
  \A r \in Roots :
    Pushing(r)
      => /\ DidStep(r, "create") <=> (proc[r].pushErr # <<>> /\ NamesMissingRepo(proc[r].pushErr))
         /\ proc[r].pushErr # <<>> /\ ~NamesMissingRepo(proc[r].pushErr)
              => ~proc[r].ok /\ proc[r].err = proc[r].pushErr

C11_Witness ==
  \E r \in Roots :
    Done(r) /\ Pushing(r) /\ proc[r].pushErr = RejectedErr /\ ~DidStep(r, "create")

\* the callback of storeToVault runs copy-in, prune and git status
StoreRuns(r) ==
  proc[r].pc = "run" /\ proc[r].op = "store" /\ proc'[r].pc \in {"push", "close"}

\* the working tree the callback leaves differs from the HEAD it started on
TreeChanged(r) == tmp'[r].fs.files # tmp[r].headTree

\* C12: store commits (and goes on to push) exactly when the working tree has a
\* modified, untracked or deleted entry after copy-in and prune; with none, it
\* makes no commit and no push.
C12_CommitIffChanged ==
  [][\A r \in Roots :
       /\ StoreRuns(r) =>
            /\ TreeChanged(r) <=> (proc'[r].commits = 1 /\ proc'[r].pc = "push")
            /\ ~TreeChanged(r) => proc'[r].commits = 0 /\ proc'[r].pc = "close"
       /\ proc[r].op = "store" /\ proc'[r].pc = "done" /\ DidStep(r, "copyin")
            => proc'[r].pushes = proc'[r].commits]_vars

C12_Witness ==
  \E r \in Roots :
    /\ Done(r) /\ proc[r].op = "store" /\ DidStep(r, "clone")
    /\ proc[r].commits = 1 /\ proc[r].pushes = 1 /\ proc[r].ok

\* C13: a pull, with or without a path filter and whether it returns or
\* raises, makes no commit and no push and leaves the remote repository as it
\* was when the pull began.
C13_PullLeavesRemote ==
  \A r \in Roots :
    proc[r].op = "pull"
      => remote = proc[r].start.remote /\ proc[r].commits = 0 /\ proc[r].pushes = 0

C13_Witness ==
  \E r \in Roots :
    /\ Done(r) /\ proc[r].op = "pull" /\ proc[r].paths # {}
    /\ proc[r].ok /\ proc[r].count = 1 /\ remote.status = "present"

\* the first step a callback records
CallbackSteps == {"copyout", "list", "verify", "copyin", "commit"}

\* in the steps of r, `a` is followed by nothing or by one of `next`
FollowedBy(r, a, next) ==
  \A i \in 1..(Len(proc[r].steps) - 1) :
     proc[r].steps[i] = a => proc[r].steps[i + 1] \in next

\* the callback of r is handed a repository with the placeholder committed
Bootstrapped(r) ==
  /\ tmp[r].kind = "boot"
  /\ tmp[r].headTree = KeepTree /\ tmp[r].fs.files = KeepTree

\* the session goes from the failed clone to the bootstrap and from there to
\* the callback, with no other step in between
BootstrapPath(r) ==
  /\ proc[r].pc = "run" /\ Last(proc[r].steps) = "boot" => Bootstrapped(r)
  /\ FollowedBy(r, "clonefail", {"boot"})
  /\ FollowedBy(r, "boot", CallbackSteps)

\* C14 as claimed: whenever the clone fails the session bootstraps a repository
\* and still invokes the operation on it, with no network contact before the
\* operation's own push.
C14_AlwaysBootstrapsAndRuns ==
  \A r \in Roots :
    /\ BootstrapPath(r)
    /\ Done(r) /\ DidStep(r, "clonefail")
         => Last(proc[r].steps) \notin {"clonefail", "boot"}

\* C14 as amended: whenever the clone fails the session attempts the
\* bootstrap; when its git commands succeed the operation is invoked on the
\* bootstrapped repository with no network contact before the operation's own
\* push, and when one of them fails that error is raised, the operation is not
\* invoked and the temp directory is removed.
C14_BootstrapsOrRaises ==
  \A r \in Roots :
    /\ BootstrapPath(r)
    /\ Done(r) /\ DidStep(r, "clonefail")
         => /\ Last(proc[r].steps) # "boot"
            /\ Last(proc[r].steps) = "clonefail"
                 => ~proc[r].ok /\ proc[r].err = GitFailedErr /\ tmp[r].kind = "none"

C14_Witness ==
  \E r \in Roots :
    /\ Done(r) /\ proc[r].op = "list" /\ proc[r].ok
    /\ DidStep(r, "clonefail") /\ DidStep(r, "boot") /\ Last(proc[r].steps) = "list"

\* the remote workspace of r holds the files r collected, as they are in r
StoredAll(r) ==
  Partition(remote.tree, r) =
    [f \in {WorkspaceRoot(r) \o p : p \in Range(proc[r].files)} |->
       local[r][Below(WorkspaceRoot(r), f)]]

\* C15: no operation returns a success result when its effect did not happen:
\* with a remote that exists, pull and list return normally only after they
\* cloned it, and store returns normally only with its files in the remote.
C15_NoSuccessWithoutEffect ==
  \A r \in Roots :
    Done(r) /\ proc[r].ok /\ proc[r].start.remote.status = "present"
      => /\ proc[r].op \in {"pull", "list"} => DidStep(r, "clone")
         /\ proc[r].op = "store" /\ proc[r].pushes = 1 => StoredAll(r)

\* r creates the temp directory of a session
SessionOpens(r) == proc[r].pc = "open" /\ proc'[r].pc = "cred"

\* sync goes from its pull phase to its store phase
StorePhaseStarts(r) == proc[r].fn = "pull" /\ proc'[r].fn = "sync"

\* C16: sync creates a session only when none exists, and its store phase
\* starts only after the pull phase succeeded and the pull session's temp
\* directory was deleted; the two sessions use temp directories of their own.
C16_SyncPhasesInSequence ==
  [][\A r \in Roots :
       proc[r].op = "sync"
         => /\ SessionOpens(r) => tmp[r].kind = "none" /\ tmp'[r].kind = "empty"
            /\ StorePhaseStarts(r) => proc[r].ok /\ tmp'[r].kind = "none"
            /\ proc'[r].fn = "sync" /\ proc'[r].op = "sync" => DidStep(r, "copyout")]_vars

C16_Witness ==
  \E r \in Roots :
    /\ Done(r) /\ proc[r].op = "sync" /\ proc[r].ok /\ proc[r].pushes = 1
    /\ Cardinality({i \in DOMAIN proc[r].steps : proc[r].steps[i] = "mkdtemp"}) = 2

\* C17: the store phase of sync does what storeToVault does on the same
\* project files and remote: after a successful store with nothing changed
\* since, it returns the count that store returned and leaves the remote as it
\* is, and when the remote could not be created it raises store's error.
C17_SyncStoresLikeStore ==
  \A r \in Roots :
    Done(r) /\ proc[r].op = "sync" /\ proc[r].fn = "sync"
      => /\ proc[r].idem /\ local[r] = proc[r].start.local
              => proc[r].ok /\ proc[r].count = proc[r].prevCount
                            /\ remote = proc[r].start.remote
         /\ ~proc[r].ok /\ DidStep(r, "create")
              => proc[r].err = StoreCreateErr(loadConfig(config[r]).repoUrl, gh)

\* r's purge returned normally and nothing was pushed after it
PurgedLast(r) ==
  /\ Done(r) /\ proc[r].op = "purge" /\ proc[r].ok /\ proc[r].pushes = 1
  /\ remote.head = proc[r].head

\* q's pull copied from a clone of what r's purge pushed
PulledAfter(q, r) ==
  /\ proc[q].op = "pull" /\ proc[q].pc \in {"close", "done"}
  /\ DidStep(q, "clone") /\ proc[q].head = proc[r].head

\* C18: after a successful purge the vault content root of the remote holds
\* the placeholder only, and a pull of any project that follows it writes no
\* file and returns 0.
C18_PurgeEmptiesVault ==
  \A r \in Roots :
    /\ PurgedLast(r) => remote.status = "present" /\ remote.tree = KeepTree
    /\ Done(r) /\ proc[r].op = "purge" /\ proc[r].ok /\ proc[r].pushes = 1
         => \A q \in Roots \ {r} :
              PulledAfter(q, r) => proc[q].count = 0 /\ proc[q].wrote = EmptyTree

C18_Witness ==
  \E r \in Roots : \E q \in Roots \ {r} :
    /\ PurgedLast(r) /\ DOMAIN proc[r].start.remote.tree # DOMAIN KeepTree
    /\ PulledAfter(q, r) /\ Done(q) /\ proc[q].ok

\* a list of project-relative paths in lexicographic order, each once
Sorted(list) ==
  \A i, j \in DOMAIN list : i < j => PathIndex(list[i]) < PathIndex(list[j])

\* the project listing of r returned from a clone
Listed(r) ==
  Done(r) /\ proc[r].op = "listProject" /\ proc[r].ok /\ DidStep(r, "clone")

RemoveReturns(r) ==
  proc[r].pc = "close" /\ proc'[r].pc = "done" /\ proc[r].op = "remove" /\ proc[r].ok

InVault(tree, r, p) == WorkspaceRoot(r) \o p \in DOMAIN tree

\* C20: when a remove of p returns successfully the saved exclude list holds
\* p and the remote workspace does not hold the file p, and no later store of
\* the project puts an excluded path back into the remote workspace.
C20_RemoveTakesOut ==
  [][\A r \in Roots :
       /\ RemoveReturns(r) =>
            \A p \in proc[r].paths :
               /\ config'[r].kind = "json" /\ p \in Range(config'[r].exclude)
               /\ ~InVault(remote'.tree, r, p)
       /\ proc[r].pc = "push" /\ proc'[r].pc = "close" /\ proc[r].op = "store" =>
            \A p \in Range(loadConfig(config[r]).exclude) \cap RelPaths :
               ~InVault(remote.tree, r, p) => ~InVault(remote'.tree, r, p)]_vars


\* r has collected its files and not yet opened its session
Collected(r) == proc[r].op = "store" /\ proc[r].pc = "open"

\* the first include pattern of c that p matches (0 when none)
FirstInclude(c, p) ==
  IF \E i \in DOMAIN c.include : GlobMatch(c.include[i], p)
  THEN CHOOSE i \in DOMAIN c.include :
         /\ GlobMatch(c.include[i], p)
         /\ \A j \in 1..(i - 1) : ~GlobMatch(c.include[j], p)
  ELSE 0

\* the project tree and the config of the claim's example
ExampleTree == [p \in {<<"a.md">>, <<"b", "c.md">>, <<"b", "c.txt">>} |-> 1]

ExampleConfig ==
  JsonFile({"repoUrl", "include", "exclude"}, GitHubUrl, << <<"**", "*.md">> >>, <<>>)

\* C21: collectFiles returns exactly the regular files under the project root
\* that match at least one include pattern and no exclude pattern, each
\* relative path once even when several include patterns match it, in the
\* order of the include list; for include **/*.md and no excludes over a.md,
\* b/c.md, b/c.txt it returns a.md and b/c.md.
C21_CollectsIncludedOnce ==
  \A r \in Roots :
    Collected(r) =>
      LET c == loadConfig(config[r])
          fs == proc[r].files
      IN /\ Range(fs) = {p \in DOMAIN local[r] :
                           FirstInclude(c, p) # 0 /\ ~Ignored(c.exclude, p)}
         /\ \A i, j \in DOMAIN fs : i # j => fs[i] # fs[j]
         /\ \A i, j \in DOMAIN fs : i < j => FirstInclude(c, fs[i]) <= FirstInclude(c, fs[j])
         /\ config[r] = ExampleConfig /\ local[r] = ExampleTree
              => Range(fs) = {<<"a.md">>, <<"b", "c.md">>}

C21_Witness ==
  \E r \in Roots :
    /\ Collected(r)
    /\ config[r] = JsonFile({"repoUrl", "include", "exclude"}, GitHubUrl,
                            << <<"b", "**">>, <<"**", "*.md">>, <<"*.md">> >>, <<>>)
    /\ local[r] = ExampleTree
    /\ proc[r].files = << <<"b", "c.md">>, <<"b", "c.txt">>, <<"a.md">> >>


\* the exclude list the project works with: what loadConfig returns
EffectiveExclude(r) == Range(loadConfig(config[r]).exclude)

\* C22: after any sequence of init, add and remove, the exclude list that a
\* config load returns contains .agvault/** and node_modules/**, .git/**,
\* dist/**, build/**.
C22_ExcludeKeepsDefaults ==
  \A r \in Roots :
    loadConfig(config[r]).tag = "ok" => Range(DEFAULT_EXCLUDE) \subseteq EffectiveExclude(r)


\* r's store is about to push a commit made on a clone of the commit that q's
\* store cloned too, and q's push has been accepted since: both cloned before
\* either pushed
Raced(r, q) ==
  /\ q # r
  /\ proc[r].pc = "push" /\ proc[r].op = "store" /\ tmp[r].kind = "clone"
  /\ proc[q].op = "store" /\ proc[q].pushes = 1 /\ proc[q].ok /\ DidStep(q, "clone")
  /\ proc[q].head = remote.head /\ tmp[r].base = remote.head - 1

PushStep(r) == proc[r].pc = "push" /\ proc'[r].pc = "close"

\* C23 as claimed: when two stores of different processes both clone before
\* either pushes, the later push is accepted too and wins: the remote ends with
\* the later pusher's tree and no error is raised.
C23_LastPushWins ==
  [][\A r, q \in Roots :
       Raced(r, q) /\ PushStep(r)
         => proc'[r].ok /\ remote'.tree = tmp[r].headTree]_vars

\* C23 as amended: when two stores of different processes both clone before
\* either pushes, the first push is accepted and the later one is rejected by
\* the remote: the later store raises git's push error, nothing is created,
\* and the remote keeps the first pusher's state.
C23_LaterPushRejected ==
  [][\A r, q \in Roots :
       Raced(r, q) /\ PushStep(r)
         => /\ ~proc'[r].ok /\ proc'[r].err = RejectedErr
            /\ ~isRepoNotFoundError(proc'[r].err) /\ "create" \notin Range(proc'[r].steps)
            /\ remote' = remote]_vars

C23_Witness ==
  \E r \in Roots : \E q \in Roots \ {r} :
    /\ Done(r) /\ proc[r].op = "store" /\ ~proc[r].ok /\ proc[r].err = RejectedErr
    /\ proc[r].pushes = 1 /\ DidStep(r, "clone")
    /\ Done(q) /\ proc[q].op = "store" /\ proc[q].ok /\ proc[q].pushes = 1 /\ DidStep(q, "clone")
    /\ proc[q].head = remote.head /\ proc[r].head = remote.head - 1


\* the callback of a store or of sync's store phase runs copy-in and prune
CopyInAndPrune(r) ==
  proc[r].pc = "run" /\ proc[r].fn \in {"store", "sync"} /\ proc'[r].pc \in {"push", "close"}

\* the directories of fs at or under dir that hold no entry
EmptyDirs(fs, dir) == {d \in fs.dirs : IsPrefix(dir, d) /\ Entries(fs, d) = {}}

\* C24: after copy-in followed by prune the files under the workspace
\* partition are exactly the collected relative paths, each with the current
\* local content, no empty directory is left under the partition, and the
\* files of other workspaces are unchanged.
C24_PartitionIsCollected ==
  [][\A r \in Roots :
       CopyInAndPrune(r) =>
         LET root == WorkspaceRoot(r)
             before == tmp[r].fs
             after == tmp'[r].fs
             mine(fs) == {f \in DOMAIN fs.files : Under(root, f)}
         IN /\ {Below(root, f) : f \in mine(after)} = Range(proc[r].files)
            /\ \A f \in mine(after) : after.files[f] = local[r][Below(root, f)]
            /\ EmptyDirs(after, root) = {}
            /\ Restrict(after.files, DOMAIN after.files \ mine(after))
                 = Restrict(before.files, DOMAIN before.files \ mine(before))]_vars

C24_Witness ==
  \E r \in Roots :
    /\ proc[r].pc = "push" /\ proc[r].op = "store" /\ proc[r].files # <<>>
    /\ \E f \in proc[r].touched :
          f \notin DOMAIN tmp[r].fs.files /\ Len(f) = 4 /\ Front(f) \notin tmp[r].fs.dirs
    /\ \E f \in DOMAIN tmp[r].fs.files : Under(VaultDir, f) /\ ~Under(WorkspaceRoot(r), f) /\ f # GitKeep


\* r's pull with a filter copies out of its clone
FilteredPull(r) == PullCopies(r) /\ proc[r].paths # {}

\* p is rel cut at one of its "/"
BoundedSuffix(p, rel) == \E k \in 1..(Len(rel) - 1) : SubSeq(rel, k + 1, Len(rel)) = p

\* the filter path p names the workspace file rel of the project cwd
Names(p, cwd, rel) ==
  \/ p = rel
  \/ p = <<getWorkspaceName(cwd)>> \o rel
  \/ BoundedSuffix(p, rel)
  \/ p = <<Last(rel)>>

\* the relative paths of the files in r's workspace of its temp vault
WorkspaceFiles(r) ==
  {Below(WorkspaceRoot(r), f) : f \in {g \in DOMAIN tmp[r].fs.files : Under(WorkspaceRoot(r), g)}}

\* C25: a pull with a non-empty filter writes a workspace file into the
\* project root exactly when some filter path equals its relative path, its
\* vault-qualified path, is a "/"-bounded suffix of its relative path or
\* equals its file name; the count returned is the number of files written,
\* and the project files that do not match are left as they were.
C25_FilterSelects ==
  [][\A r \in Roots :
       FilteredPull(r) =>
         LET written == {rel \in WorkspaceFiles(r) : \E p \in proc[r].paths : Names(p, r, rel)}
         IN /\ DOMAIN proc'[r].wrote = written
            /\ \A rel \in written :
                 local'[r][rel] = tmp[r].fs.files[WorkspaceRoot(r) \o rel]
            /\ proc'[r].count = Cardinality(written)
            /\ DOMAIN local'[r] = DOMAIN local[r] \cup written
            /\ \A x \in DOMAIN local[r] \ written : local'[r][x] = local[r][x]]_vars

C25_Witness ==
  \E r \in Roots :
    /\ Done(r) /\ proc[r].op = "pull" /\ proc[r].ok /\ DidStep(r, "clone")
    /\ proc[r].paths = {<<"pkg", "readme.md">>} /\ proc[r].count = 1
    /\ {<<"node_modules", "pkg", "readme.md">>, <<"a.md">>} \subseteq DOMAIN local[r]
    /\ local[r][<<"node_modules", "pkg", "readme.md">>] = 1 /\ local[r][<<"a.md">>] = 2


\* the workspace files of r's temp vault whose file name is `name`
Named(r, name) == {rel \in WorkspaceFiles(r) : Last(rel) = name}

\* r's pull has one filter path, a bare file name that several workspace files
\* share
SharedNamePull(r) ==
  /\ PullCopies(r)
  /\ \E name \in {"a.md", "c.md", "c.txt"} :
        proc[r].paths = {<<name>>} /\ Cardinality(Named(r, name)) > 1

\* C26 as claimed: when the filter path is a bare file name that several
\* workspace files share, only the first of them met by the traversal is
\* written into the project root.
C26_FirstMatchOnly ==
  [][\A r \in Roots :
       SharedNamePull(r) => Cardinality(DOMAIN proc'[r].wrote) = 1 /\ proc'[r].count = 1]_vars

\* C26 as amended: when the filter path is a bare file name that several
\* workspace files share, the traversal goes on after a match and every one of
\* them is written into the project root, each at its own relative path, and
\* counted.
C26_EveryMatchWritten ==
  [][\A r \in Roots :
       SharedNamePull(r) =>
         \A name \in {"a.md", "c.md", "c.txt"} :
            proc[r].paths = {<<name>>}
              => /\ DOMAIN proc'[r].wrote = Named(r, name)
                 /\ proc'[r].count = Cardinality(Named(r, name))
                 /\ \A rel \in Named(r, name) :
                      local'[r][rel] = tmp[r].fs.files[WorkspaceRoot(r) \o rel]]_vars

C26_Witness ==
  \E r \in Roots :
    /\ Done(r) /\ proc[r].op = "pull" /\ proc[r].ok /\ DidStep(r, "clone")
    /\ proc[r].paths = {<<"a.md">>} /\ proc[r].count = 2
    /\ DOMAIN proc[r].wrote = {<<"a.md">>, <<"b", "a.md">>}


\* C27: a reinit (of a project whose repoUrl is a string; C1 has the other
\* case) returns normally only when it cloned the remote, it fails when the
\* remote does not exist or was not reachable, and either way the remote is as
\* it was and no temp directory is left.
C27_ReinitVerifiesRemote ==
  \A r \in Roots :
    Done(r) /\ proc[r].op = "reinit" /\ loadConfig(config[r]).repoUrl.t = "str"
      => /\ proc[r].ok => DidStep(r, "clone")
         /\ DidStep(r, "clonefail") => ~proc[r].ok
         /\ remote = proc[r].start.remote
         /\ tmp[r].kind = "none"


\* init runs in r on an unparseable config file
InitOnInvalid(r) ==
  proc[r].pc = "init" /\ proc'[r].pc = "done" /\ config[r].kind = "invalid"

\* C28: when init finds a config file with invalid JSON it overwrites the file
\* only after the user confirmed the overwrite; when the user declines, init
\* returns with the config file unchanged, and has written neither a project
\* config nor the global default.
C28_OverwriteOnlyConfirmed ==
  [][\A r \in Roots :
       InitOnInvalid(r) =>
         /\ config'[r] # config[r] => proc'[r].flag = "overwrite"
         /\ proc'[r].flag = "keep" =>
              config' = config /\ global' = global /\ remote' = remote]_vars

C28_Witness ==
  \E r \in Roots :
    /\ Done(r) /\ proc[r].op = "init" /\ proc[r].flag = "keep"
    /\ config[r] = BadFile /\ proc[r].steps = <<"declined">>


\* r's sync has returned normally
Synced(r) == Done(r) /\ proc[r].op = "sync" /\ proc[r].ok

\* C29: after a successful sync every file that was in the project's vault
\* workspace before the sync has the vault's pre-sync content in the project
\* and in the vault (an edit of a stored file is not uploaded), and what the
\* sync changed in the workspace are files added to it.
C29_SyncKeepsVaultContent ==
  \A r \in Roots :
    Synced(r) =>
      LET was == Partition(proc[r].start.remote.tree, r)
          now == Partition(remote.tree, r)
      IN \A f \in DOMAIN was :
           /\ f \in DOMAIN now /\ now[f] = was[f]
           /\ Below(WorkspaceRoot(r), f) \in DOMAIN local[r]
           /\ local[r][Below(WorkspaceRoot(r), f)] = was[f]


\* the position of the first step `name` in the steps of r (0 when absent)
StepIndex(r, name) ==
  IF DidStep(r, name)
  THEN CHOOSE i \in DOMAIN proc[r].steps :
         proc[r].steps[i] = name /\ \A j \in 1..(i - 1) : proc[r].steps[j] # name
  ELSE 0

\* the saved exclude list of r holds every path of r's command
Excluded(r) ==
  config[r].kind = "json" /\ proc[r].paths \subseteq Range(config[r].exclude)

====
